---- MODULE Spec2Model ----
(***************************************************************************)
(* Model of the acceleration-analysis application:                         *)
(*   src/acceleration_analysis.py  load_acceleration_data,                 *)
(*                                 compute_welch_psd                       *)
(*   src/streamlit_app.py          the Streamlit script (one run per user  *)
(*                                 interaction)                            *)
(*                                                                         *)
(* Floating-point numbers are records [nan, v]: v is an integer standing   *)
(* for the value, nan marks IEEE NaN.  A NumPy array is a record           *)
(* [dtype, data]; dtype "None" stands for Python's None.  Sequences are    *)
(* 1-indexed here and 0-indexed in the code: code position p is TLA+       *)
(* position p + 1.                                                         *)
(***************************************************************************)
EXTENDS Integers, Sequences, FiniteSets

(***************************************************************************)
(* Bounds of the model.  The slider ranges of streamlit_app.py:31-32       *)
(* (nperseg 256..4096 step 256, noverlap 0..200) are scaled down keeping   *)
(* their shape: nperseg is a positive multiple of SegStep, noverlap is     *)
(* below the smallest nperseg.                                             *)
(***************************************************************************)
MaxCols == 6
MaxRows == 4
SegStep == 2
SegSteps == 2
MaxOverlap == 1

\* number_input values of streamlit_app.py:30 and :33 (default and minimum)
FsDefault == 5000
FsMin == 100
XLimitDefault == 1000
XLimitMin == 10

---------------------------------------------------------------------------
(* Floating-point values *)

F(i) == [nan |-> FALSE, v |-> i]
NaN == [nan |-> TRUE, v |-> 0]

FAdd(a, b) == IF a.nan \/ b.nan THEN NaN ELSE F(a.v + b.v)
FSub(a, b) == IF a.nan \/ b.nan THEN NaN ELSE F(a.v - b.v)
FMul(a, b) == IF a.nan \/ b.nan THEN NaN ELSE F(a.v * b.v)
FAbs(a) == IF a.nan THEN NaN ELSE F(IF a.v < 0 THEN 0 - a.v ELSE a.v)
\* IEEE comparison: false as soon as one side is NaN
FGt(a, b) == ~a.nan /\ ~b.nan /\ a.v > b.v

RECURSIVE FSum(_)
FSum(s) == IF Len(s) = 0 THEN F(0) ELSE FAdd(Head(s), FSum(Tail(s)))

(* Exceptions *)
NoExc == [type |-> "none", msg |-> "", arg |-> 0]
Exc(t, m, a) == [type |-> t, msg |-> m, arg |-> a]
\* except ValueError: the class and its subclasses (pandas' EmptyDataError)
IsValueError(e) == e.type \in {"ValueError", "EmptyDataError"}

(* Arrays *)
None == [dtype |-> "None", data |-> <<>>]
Array(d) == [dtype |-> "float64", data |-> d]

---------------------------------------------------------------------------
(* Tables: what pd.read_csv makes of an uploaded file *)

\* value of the cell in data row r (1..nrows) of the column at position c
Cell(r, c) == F((((r + 1) * (c + 2)) % 7) - 3)

\* content "numeric": every cell a number; "impulse": a number in the first
\* row and zeros below; "nan": the first cell of the column at position 2 is
\* blank (pandas reads NaN); "text": the column at position 3 holds
\* non-numeric text (pandas keeps it as dtype object)
ColumnOf(c, n, content) ==
    [dtype |-> IF content = "text" /\ c = 3 THEN "object" ELSE "float64",
     data |-> [r \in 1..n |->
                 IF content = "nan" /\ c = 2 /\ r = 1 THEN NaN
                 ELSE IF content = "impulse" THEN F(IF r = 1 THEN c + 1 ELSE 0)
                 ELSE Cell(r, c)]]

Frame(ncols, nrows, content) ==
    [nrows |-> nrows, cols |-> [p \in 1..ncols |-> ColumnOf(p - 1, nrows, content)]]

\* numeric tables of every shape, and tables of the two accepted widths with
\* an impulse, a blank cell or a text column
Frames ==
    {Frame(nc, nr, "numeric") : nc \in 3..MaxCols, nr \in 0..MaxRows}
    \cup {Frame(nc, MaxRows, ct) : nc \in {4, 5}, ct \in {"impulse", "nan", "text"}}

\* an uploaded file: a parsable table, or a file with nothing to parse
NoFrame == [nrows |-> 0, cols |-> <<>>]
NoFile == [present |-> FALSE, parsable |-> FALSE, frame |-> NoFrame]
CsvFile(fr) == [present |-> TRUE, parsable |-> TRUE, frame |-> fr]
EmptyFile == [present |-> TRUE, parsable |-> FALSE, frame |-> NoFrame]
Files == {CsvFile(fr) : fr \in Frames} \cup {EmptyFile}

\* pd.read_csv(file_path); readable is FALSE when the path cannot be opened
read_csv(file, readable) ==
    IF ~readable THEN [raised |-> Exc("OSError", "cannot open file", 0), frame |-> NoFrame]
    ELSE IF ~file.parsable
    THEN [raised |-> Exc("EmptyDataError", "No columns to parse from file", 0),
          frame |-> NoFrame]
    ELSE [raised |-> NoExc, frame |-> file.frame]

\* np.shape(data)
Shape(frame) == <<frame.nrows, Len(frame.cols)>>

\* data.iloc[:, p].values, p a 0-indexed position
Iloc(frame, p) == frame.cols[p + 1]

LoadFailed(e) == [raised |-> e, Accelx |-> None, Accely |-> None, Accelz |-> None,
                  colnum |-> 0]

\* mutant: the count reported is one too small
FormatErrorMutant(colnum) == Exc("ValueError", "Expected 4 or 5 columns, got", colnum - 1)

\* the error of line 37, carrying the column count found
FormatError(colnum) == Exc("ValueError", "Expected 4 or 5 columns, got", colnum)

\* mutant: a 5-column table is read like a 4-column one
ColumnOffsetMutant(colnum) == 1

\* position of the X column: 2 when colnum = 5, 1 when colnum = 4; Y and Z
\* are the next two positions
ColumnOffset(colnum) == IF colnum = 5 THEN 2 ELSE 1

load_acceleration_data(file, readable) ==
    LET rd == read_csv(file, readable)
        data == rd.frame
        colnum == Shape(data)[2]
        off == ColumnOffset(colnum)
    IN  IF rd.raised # NoExc THEN LoadFailed(rd.raised)
        ELSE IF colnum = 5 \/ colnum = 4
        THEN [raised |-> NoExc,
              Accelx |-> Iloc(data, off),
              Accely |-> Iloc(data, off + 1),
              Accelz |-> Iloc(data, off + 2),
              colnum |-> colnum]
        ELSE LoadFailed(FormatError(colnum))

---------------------------------------------------------------------------
(* scipy.signal.welch as compute_welch_psd calls it: window "hann",        *)
(* detrend "constant", one-sided spectrum, nfft = nperseg.  Segmenting,    *)
(* the number of bins, the bin frequencies and the errors are the          *)
(* library's.  A power value is an integer stand-in for the library's      *)
(* floating-point estimate: each segment is detrended (times its length,   *)
(* to stay in the integers) and projected on the signs of the cosine and   *)
(* sine of bin k, the squared projections are summed over the segments.    *)
(* A frequency k * fs / nfft is the pair <<k * fs, nfft>>.                 *)

WelchFailed(e) == [raised |-> e, f |-> <<>>, Pxx |-> <<>>]

\* a segment longer than the input is cut to the input length
TriageSegments(nperseg, n) == IF nperseg > n THEN n ELSE nperseg

SignCos(m, n) ==
    IF 4 * m < n \/ 4 * m > 3 * n THEN 1
    ELSE IF 4 * m = n \/ 4 * m = 3 * n THEN 0 ELSE 0 - 1

SignSin(m, n) ==
    IF m = 0 \/ 2 * m = n THEN 0 ELSE IF 2 * m < n THEN 1 ELSE 0 - 1

\* the i-th segment (i from 0) of length n, segments step samples apart
Segment(x, i, step, n) == SubSeq(x, i * step + 1, i * step + n)

Detrend(seg) ==
    LET total == FSum(seg)
    IN  [j \in 1..Len(seg) |-> FSub(FMul(F(Len(seg)), seg[j]), total)]

Periodogram(seg, k) ==
    LET n == Len(seg)
        d == Detrend(seg)
        re == FSum([j \in 1..n |-> FMul(F(SignCos(((j - 1) * k) % n, n)), d[j])])
        im == FSum([j \in 1..n |-> FMul(F(SignSin(((j - 1) * k) % n, n)), d[j])])
    IN  FAdd(FMul(re, re), FMul(im, im))

\* mutant: the bin at the Nyquist frequency is left out
BinsMutant(nfft) == nfft \div 2

\* number of frequency bins of a one-sided spectrum
Bins(nfft) == (nfft \div 2) + 1

Welch(x, fs, nperseg, noverlap) ==
    LET n == Len(x.data)
        nseg == TriageSegments(nperseg, n)
        nfft == nseg
        step == nseg - noverlap
        count == (n - noverlap) \div step
    IN  IF x.dtype = "None"
        THEN WelchFailed(Exc("IndexError", "tuple index out of range", 0))
        ELSE IF n = 0 THEN [raised |-> NoExc, f |-> <<>>, Pxx |-> <<>>]
        ELSE IF nperseg < 1
        THEN WelchFailed(Exc("ValueError", "nperseg must be a positive integer", 0))
        ELSE IF noverlap >= nseg
        THEN WelchFailed(Exc("ValueError", "noverlap must be less than nperseg.", 0))
        ELSE IF x.dtype = "object"
        THEN WelchFailed(Exc("TypeError", "unsupported operand type(s)", 0))
        ELSE [raised |-> NoExc,
              f |-> [b \in 1..Bins(nfft) |-> <<(b - 1) * fs, nfft>>],
              Pxx |-> [b \in 1..Bins(nfft) |->
                         FSum([i \in 1..count |->
                                 Periodogram(Segment(x.data, i - 1, step, nseg), b - 1)])]]

\* a + b on one-dimensional arrays, with NumPy's broadcasting of length 1
CanBroadcast(a, b) == Len(a) = Len(b) \/ Len(a) = 1 \/ Len(b) = 1

AddArrays(a, b) ==
    LET n == IF Len(a) = 1 THEN Len(b) ELSE Len(a)
    IN  [i \in 1..n |-> FAdd(IF Len(a) = 1 THEN a[1] ELSE a[i],
                             IF Len(b) = 1 THEN b[1] ELSE b[i])]

AbsArray(a) == [i \in 1..Len(a) |-> FAbs(a[i])]

\* mutant: on a tie the scan moves on to the later position
RECURSIVE ArgMaxScanMutant(_, _, _)
ArgMaxScanMutant(s, i, best) ==
    IF i > Len(s) \/ s[best].nan THEN best
    ELSE ArgMaxScanMutant(s, i + 1, IF s[i].nan \/ ~FGt(s[best], s[i]) THEN i ELSE best)

\* np.argmax scans left to right, keeps the first largest value and stops
\* at the first NaN; positions here are 1-indexed
RECURSIVE ArgMaxScan(_, _, _)
ArgMaxScan(s, i, best) ==
    IF i > Len(s) \/ s[best].nan THEN best
    ELSE ArgMaxScan(s, i + 1, IF s[i].nan \/ FGt(s[i], s[best]) THEN i ELSE best)

\* mutant: np.argmax with ties resolved to the later position
ArgMaxMutant(s) == ArgMaxScanMutant(s, 2, 1) - 1

\* the 0-indexed position np.argmax returns, for a non-empty s
ArgMax(s) == ArgMaxScan(s, 2, 1) - 1

NoResult ==
    [raised |-> NoExc, computed |-> FALSE, frequency |-> <<>>, psd_x |-> <<>>,
     psd_y |-> <<>>, psd_z |-> <<>>, psd_total |-> <<>>, mode_1_freq |-> <<0, 1>>,
     mode_1_index |-> 0, sampling_rate |-> 0]

ComputeFailed(e) == [NoResult EXCEPT !.raised = e]

\* mutant: the Z axis is left out of the sum
TotalPsdMutant(px, py, pz) == AddArrays(px, py)

\* the elementwise sum of the three per-axis estimates
TotalPsd(px, py, pz) == AddArrays(AddArrays(px, py), pz)

\* the position of the dominant mode in the combined estimate
DominantIndex(total) == ArgMax(AbsArray(total))

compute_welch_psd(Accelx, Accely, Accelz, fs, nperseg, noverlap) ==
    LET wx == Welch(Accelx, fs, nperseg, noverlap)
        wy == Welch(Accely, fs, nperseg, noverlap)
        wz == Welch(Accelz, fs, nperseg, noverlap)
        Pxx_total == TotalPsd(wx.Pxx, wy.Pxx, wz.Pxx)
        argmax == DominantIndex(Pxx_total)
    IN  IF wx.raised # NoExc THEN ComputeFailed(wx.raised)
        ELSE IF wy.raised # NoExc THEN ComputeFailed(wy.raised)
        ELSE IF wz.raised # NoExc THEN ComputeFailed(wz.raised)
        ELSE IF ~CanBroadcast(wx.Pxx, wy.Pxx)
                \/ ~CanBroadcast(AddArrays(wx.Pxx, wy.Pxx), wz.Pxx)
        THEN ComputeFailed(Exc("ValueError", "operands could not be broadcast together", 0))
        ELSE IF Len(Pxx_total) = 0
        THEN ComputeFailed(Exc("ValueError", "attempt to get argmax of an empty sequence", 0))
        ELSE IF argmax >= Len(wx.f)
        THEN ComputeFailed(Exc("IndexError", "index out of bounds", argmax))
        ELSE [raised |-> NoExc, computed |-> TRUE,
              frequency |-> wx.f,
              psd_x |-> wx.Pxx,
              psd_y |-> wy.Pxx,
              psd_z |-> wz.Pxx,
              psd_total |-> Pxx_total,
              mode_1_freq |-> wx.f[argmax + 1],
              mode_1_index |-> argmax,
              sampling_rate |-> fs]

---------------------------------------------------------------------------
(* The Streamlit script.  Every user interaction reruns it from the top    *)
(* with the widgets' current values; nothing else survives a run.          *)

VARIABLES
    NIDAQMX_AVAILABLE,  \* capability flag imported from the backend
    fs, nperseg, noverlap, x_limit,  \* sidebar widgets
    data_source,        \* sidebar radio
    uploaded_file,      \* st.file_uploader
    Accelx, Accely, Accelz, data_loaded,  \* the script's data variables
    results,            \* what compute_welch_psd gave in this run
    shown,              \* the elements this run put on the page, in order
    error_shown,        \* the exception whose text st.error displayed
    uncaught,           \* the exception that ended this run, if any
    tmp_created,        \* this run created a temporary file
    tmp_exists          \* ... and the file is still on disk after the run

widgets == <<fs, nperseg, noverlap, x_limit, data_source, uploaded_file>>
outcome == <<Accelx, Accely, Accelz, data_loaded, results, shown, error_shown,
             uncaught, tmp_created, tmp_exists>>
vars == <<NIDAQMX_AVAILABLE, widgets, outcome>>

FsValues == {FsDefault, FsMin}
XLimitValues == {XLimitDefault, XLimitMin}
NpersegValues == {SegStep * k : k \in 1..SegSteps}
NoverlapValues == 0..MaxOverlap
Sources == {"Upload CSV", "Hardware Acquisition"}

\* the radio offers the hardware source only when the capability is there
SourceOptions(available) == IF available THEN Sources ELSE {"Upload CSV"}

\* what the environment does to one run: the temporary file cannot be
\* written, or cannot be read back, or neither
Envs == {"ok", "write fails", "read fails"}

\* acquire_from_hardware: an opaque producer of three equal-length
\* sequences, or a failure.  n = 0 stands for the failure.
AcquireOutcomes == 0..MaxRows

acquire_from_hardware(n) ==
    IF n = 0
    THEN [raised |-> Exc("AcquisitionError", "device not found", 0),
          Accelx |-> None, Accely |-> None, Accelz |-> None]
    ELSE [raised |-> NoExc,
          Accelx |-> Array([r \in 1..n |-> Cell(r, 0)]),
          Accely |-> Array([r \in 1..n |-> Cell(r, 1)]),
          Accelz |-> Array([r \in 1..n |-> Cell(r, 2)])]

\* lines 42-46: the state of a run before a data source is consulted
Fresh ==
    [Accelx |-> None, Accely |-> None, Accelz |-> None, data_loaded |-> FALSE,
     results |-> NoResult, shown |-> <<>>, error_shown |-> NoExc,
     uncaught |-> NoExc, tmp_created |-> FALSE, tmp_exists |-> FALSE]

\* lines 48-73
HardwareBranch(button, acq) ==
    LET got == acquire_from_hardware(acq)
    IN  IF ~button THEN Fresh
        ELSE IF got.raised = NoExc
        THEN [Fresh EXCEPT !.Accelx = got.Accelx, !.Accely = got.Accely,
                           !.Accelz = got.Accelz, !.data_loaded = TRUE,
                           !.shown = <<"success: Data acquired successfully!">>]
        ELSE [Fresh EXCEPT !.shown = <<"error: Acquisition failed">>,
                           !.error_shown = got.raised]

FileInfo ==
    <<"metric: Number of Samples", "metric: Duration (s)", "metric: CSV Columns">>

\* os.path.exists(tmp_path) and os.remove(tmp_path) of the finally clause
RemoveTmp(exists) == IF exists THEN FALSE ELSE exists

\* lines 75-111
UploadBranch(file, env) ==
    LET ld == load_acceleration_data(file, env # "read fails")
        opened == [Fresh EXCEPT !.tmp_created = TRUE, !.tmp_exists = TRUE]
        loading == <<"info: Loading acceleration data...">>
    IN  IF ~file.present THEN Fresh
        ELSE IF env = "write fails"
        THEN [opened EXCEPT !.uncaught = Exc("OSError", "No space left on device", 0)]
        ELSE IF ld.raised = NoExc
        THEN [opened EXCEPT !.Accelx = ld.Accelx, !.Accely = ld.Accely,
                            !.Accelz = ld.Accelz, !.data_loaded = TRUE,
                            !.shown = loading \o FileInfo
                                      \o <<"success: Data loaded successfully!">>,
                            !.tmp_exists = RemoveTmp(TRUE)]
        ELSE IF IsValueError(ld.raised)
        THEN [opened EXCEPT !.shown = loading \o <<"error: Error">>,
                            !.error_shown = ld.raised,
                            !.data_loaded = FALSE,
                            !.tmp_exists = RemoveTmp(TRUE)]
        ELSE [opened EXCEPT !.shown = loading \o <<"error: An unexpected error occurred">>,
                            !.error_shown = ld.raised,
                            !.data_loaded = FALSE,
                            !.tmp_exists = RemoveTmp(TRUE)]

AnalysisOutput ==
    <<"metric: Mode 1 Frequency", "metric: Peak PSD Value",
      "pyplot: plot_psd", "pyplot: plot_individual_axes", "pyplot: plot_time_domain",
      "download: psd_results.csv", "download: analysis_summary.csv",
      "success: Analysis complete!">>

Computing == "info: Computing power spectral density..."

\* line 113
AnalysisGuard(r) == r.data_loaded /\ r.Accelx # None

\* lines 113-190, entered with the state r the data branch left
AnalysisSection(r, f, seg, ovl, source) ==
    LET res == compute_welch_psd(r.Accelx, r.Accely, r.Accelz, f, seg, ovl)
    IN  IF r.uncaught # NoExc THEN r
        ELSE IF AnalysisGuard(r)
        THEN IF res.raised # NoExc
             THEN [r EXCEPT !.results = res, !.uncaught = res.raised,
                            !.shown = r.shown \o <<Computing>>]
             ELSE [r EXCEPT !.results = res,
                            !.shown = r.shown \o <<Computing>> \o AnalysisOutput]
        ELSE IF source = "Upload CSV"
        THEN [r EXCEPT !.shown = r.shown \o <<"info: Please upload a CSV file to get started">>]
        ELSE [r EXCEPT !.shown = r.shown \o <<"info: Configure hardware settings">>]

\* one run of the script
Script(available, f, seg, ovl, source, file, button, acq, env) ==
    AnalysisSection(
        IF source = "Hardware Acquisition" /\ available
        THEN HardwareBranch(button, acq)
        ELSE UploadBranch(file, env),
        f, seg, ovl, source)

Rerun(r) ==
    /\ Accelx' = r.Accelx
    /\ Accely' = r.Accely
    /\ Accelz' = r.Accelz
    /\ data_loaded' = r.data_loaded
    /\ results' = r.results
    /\ shown' = r.shown
    /\ error_shown' = r.error_shown
    /\ uncaught' = r.uncaught
    /\ tmp_created' = r.tmp_created
    /\ tmp_exists' = r.tmp_exists

\* scaled defaults of the sliders
NpersegDefault == SegStep * SegSteps
NoverlapDefault == MaxOverlap

Init ==
    /\ NIDAQMX_AVAILABLE \in BOOLEAN
    /\ fs = FsDefault
    /\ nperseg = NpersegDefault
    /\ noverlap = NoverlapDefault
    /\ x_limit = XLimitDefault
    /\ data_source = "Upload CSV"
    /\ uploaded_file = NoFile
    /\ Accelx = None /\ Accely = None /\ Accelz = None
    /\ data_loaded = FALSE
    /\ results = NoResult
    /\ shown = <<"info: Please upload a CSV file to get started">>
    /\ error_shown = NoExc
    /\ uncaught = NoExc
    /\ tmp_created = FALSE
    /\ tmp_exists = FALSE

\* a widget interaction that is not the acquisition button
RerunWith(f, seg, ovl, source, file) ==
    \E env \in IF file.present THEN Envs ELSE {"ok"} :
        \E r \in {Script(NIDAQMX_AVAILABLE, f, seg, ovl, source, file, FALSE, 0, env)} :
            Rerun(r)

ChangeFs ==
    \E v \in FsValues \ {fs} :
        /\ fs' = v
        /\ UNCHANGED <<NIDAQMX_AVAILABLE, nperseg, noverlap, x_limit, data_source,
                       uploaded_file>>
        /\ RerunWith(v, nperseg, noverlap, data_source, uploaded_file)

ChangeNperseg ==
    \E v \in NpersegValues \ {nperseg} :
        /\ nperseg' = v
        /\ UNCHANGED <<NIDAQMX_AVAILABLE, fs, noverlap, x_limit, data_source,
                       uploaded_file>>
        /\ RerunWith(fs, v, noverlap, data_source, uploaded_file)

ChangeNoverlap ==
    \E v \in NoverlapValues \ {noverlap} :
        /\ noverlap' = v
        /\ UNCHANGED <<NIDAQMX_AVAILABLE, fs, nperseg, x_limit, data_source,
                       uploaded_file>>
        /\ RerunWith(fs, nperseg, v, data_source, uploaded_file)

ChangeXLimit ==
    \E v \in XLimitValues \ {x_limit} :
        /\ x_limit' = v
        /\ UNCHANGED <<NIDAQMX_AVAILABLE, fs, nperseg, noverlap, data_source,
                       uploaded_file>>
        /\ RerunWith(fs, nperseg, noverlap, data_source, uploaded_file)

\* the uploader is not drawn in the hardware branch, so Streamlit drops its file
SelectSource ==
    \E s \in SourceOptions(NIDAQMX_AVAILABLE) \ {data_source} :
        /\ data_source' = s
        /\ uploaded_file' = NoFile
        /\ UNCHANGED <<NIDAQMX_AVAILABLE, fs, nperseg, noverlap, x_limit>>
        /\ RerunWith(fs, nperseg, noverlap, s, NoFile)

\* the uploader holds one file; another is uploaded after removing it
UploadFile ==
    /\ data_source = "Upload CSV"
    /\ ~uploaded_file.present
    /\ \E file \in Files :
        /\ uploaded_file' = file
        /\ UNCHANGED <<NIDAQMX_AVAILABLE, fs, nperseg, noverlap, x_limit, data_source>>
        /\ RerunWith(fs, nperseg, noverlap, data_source, file)

RemoveFile ==
    /\ data_source = "Upload CSV"
    /\ uploaded_file.present
    /\ uploaded_file' = NoFile
    /\ UNCHANGED <<NIDAQMX_AVAILABLE, fs, nperseg, noverlap, x_limit, data_source>>
    /\ RerunWith(fs, nperseg, noverlap, data_source, NoFile)

\* st.button is True only in the run its click starts
StartAcquisition ==
    /\ data_source = "Hardware Acquisition"
    /\ NIDAQMX_AVAILABLE
    /\ UNCHANGED <<NIDAQMX_AVAILABLE, widgets>>
    /\ \E acq \in AcquireOutcomes :
        \E r \in {Script(NIDAQMX_AVAILABLE, fs, nperseg, noverlap, data_source,
                          uploaded_file, TRUE, acq, "ok")} :
            Rerun(r)

Next ==
    \/ ChangeFs
    \/ ChangeNperseg
    \/ ChangeNoverlap
    \/ ChangeXLimit
    \/ SelectSource
    \/ UploadFile
    \/ RemoveFile
    \/ StartAcquisition

Spec == Init /\ [][Next]_vars

---------------------------------------------------------------------------
(* Properties *)

Range(s) == {s[i] : i \in 1..Len(s)}

\* the run called load_acceleration_data and the file could be opened
LoaderRan ==
    tmp_created /\ uncaught.type # "OSError" /\ error_shown.type # "OSError"

\* the run called compute_welch_psd
EstimatorRan == results.computed \/ results.raised # NoExc

frame == uploaded_file.frame
ncols == Len(frame.cols)

\* C1: for a table of 5 columns the loader returns the columns at positions
\* 2, 3, 4 as X, Y, Z, for a table of 4 columns those at positions 1, 2, 3,
\* and each returned sequence has one entry per data row of the table.
C1_LoaderSelectsColumns ==
    (LoaderRan /\ uploaded_file.parsable /\ ncols \in {4, 5}) =>
        /\ data_loaded
        /\ ncols = 5 => /\ Accelx = frame.cols[3]
                        /\ Accely = frame.cols[4]
                        /\ Accelz = frame.cols[5]
        /\ ncols = 4 => /\ Accelx = frame.cols[2]
                        /\ Accely = frame.cols[3]
                        /\ Accelz = frame.cols[4]
        /\ Len(Accelx.data) = frame.nrows
        /\ Len(Accely.data) = frame.nrows
        /\ Len(Accelz.data) = frame.nrows

C1_Witness ==
    /\ LoaderRan /\ data_loaded
    /\ ncols = 5 /\ frame.nrows = MaxRows
    /\ Accelx # Accely /\ Accely # Accelz /\ Accelx = frame.cols[3]

\* C2: for a table whose column count is neither 4 nor 5 the loader fails
\* with the format error carrying that count and returns no sequences; for
\* a table of 4 or 5 columns it never fails with that error.
C2_FormatError ==
    (LoaderRan /\ uploaded_file.parsable) =>
        /\ ncols \notin {4, 5} =>
              /\ error_shown = Exc("ValueError", "Expected 4 or 5 columns, got", ncols)
              /\ ~data_loaded
              /\ Accelx = None /\ Accely = None /\ Accelz = None
        /\ ncols \in {4, 5} => error_shown.msg # "Expected 4 or 5 columns, got"

C2_Witness ==
    /\ LoaderRan /\ uploaded_file.parsable /\ ncols = 3 /\ frame.nrows > 0
    /\ error_shown.msg = "Expected 4 or 5 columns, got" /\ error_shown.arg = 3

\* IEEE equality
FEq(a, b) == ~a.nan /\ ~b.nan /\ a.v = b.v

\* i (1-indexed) is the first position of the largest value of s; a NaN
\* counts as the largest value, as it does for np.max
IsFirstMax(s, i) ==
    IF \E j \in 1..Len(s) : s[j].nan
    THEN s[i].nan /\ \A j \in 1..(i - 1) : ~s[j].nan
    ELSE /\ \A j \in 1..Len(s) : ~FGt(s[j], s[i])
         /\ \A j \in 1..(i - 1) : ~FEq(s[j], s[i])

\* C3: in a returned result the dominant-mode index is the first position
\* of the largest absolute value of the combined PSD, lies in [0, L), and
\* the dominant-mode frequency is the frequency array's entry there.
C3_DominantMode ==
    results.computed =>
        /\ results.mode_1_index \in 0..(Len(results.psd_total) - 1)
        /\ IsFirstMax([i \in 1..Len(results.psd_total) |-> FAbs(results.psd_total[i])],
                      results.mode_1_index + 1)
        /\ results.mode_1_freq = results.frequency[results.mode_1_index + 1]

\* a result in which two bins tie for the largest combined power and the
\* first of them, which is not the first bin, is reported
C3_Witness ==
    /\ results.computed
    /\ results.mode_1_index > 0
    /\ results.psd_total[results.mode_1_index + 1].v > 0
    /\ \E j \in (results.mode_1_index + 2)..Len(results.psd_total) :
          results.psd_total[j] = results.psd_total[results.mode_1_index + 1]

C5_Lengths ==
    (/\ results.computed
     /\ Len(Accelx.data) = Len(Accely.data)
     /\ Len(Accely.data) = Len(Accelz.data)
     /\ Len(Accelx.data) >= nperseg) =>
        /\ Len(results.frequency) = (nperseg \div 2) + 1
        /\ Len(results.psd_x) = (nperseg \div 2) + 1
        /\ Len(results.psd_y) = (nperseg \div 2) + 1
        /\ Len(results.psd_z) = (nperseg \div 2) + 1
        /\ Len(results.psd_total) = (nperseg \div 2) + 1
        /\ results.frequency = Welch(Accely, fs, nperseg, noverlap).f
        /\ results.frequency = Welch(Accelz, fs, nperseg, noverlap).f

C5_Witness ==
    /\ results.computed
    /\ nperseg = SegStep * SegSteps
    /\ Len(Accelx.data) >= nperseg
    /\ Len(results.frequency) = (nperseg \div 2) + 1

\* C6: the temporary file a run creates for the uploaded content is gone by
\* the end of that run, on every path, a failed write included.
C6_TmpRemoved == tmp_created => ~tmp_exists

\* C7: an exception the estimation library raises while compute_welch_psd
\* runs on non-empty data is caught by the script and shown with st.error;
\* it does not end the run uncaught.
C7_EstimationFailureSurfaced ==
    (results.raised # NoExc /\ Len(Accelx.data) >= 1) =>
        (uncaught = NoExc /\ error_shown = results.raised)

ResultOutput ==
    Range(FileInfo) \cup Range(AnalysisOutput)
    \cup {"success: Data loaded successfully!", "success: Data acquired successfully!"}

\* the run failed: in loading, in acquisition or in estimation
RunFailed == error_shown # NoExc \/ uncaught # NoExc

\* C8: a run in which loading, acquisition or estimation fails shows no
\* result output (file info, dominant-mode metrics, plots, downloads,
\* success messages), and the analysis section runs only when data_loaded
\* is true and all three sequences are set.
C8_NoOutputOnFailure ==
    /\ RunFailed => Range(shown) \cap ResultOutput = {}
    /\ EstimatorRan =>
          data_loaded /\ Accelx # None /\ Accely # None /\ Accelz # None

\* a step that changes an analysis parameter and nothing else
ParameterChange ==
    /\ <<fs, nperseg, noverlap, x_limit>>' # <<fs, nperseg, noverlap, x_limit>>
    /\ data_source' = data_source
    /\ uploaded_file' = uploaded_file

\* the new run met no file-system failure
NoIoFailure == uncaught.type # "OSError" /\ error_shown.type # "OSError"

\* C9: once a run has obtained data, from an upload or from the hardware,
\* and shown its result, a change of an analysis parameter starts a run that
\* recomputes the result from the same data with the new parameters and,
\* when the estimator returns, displays it.
C9_RecomputedOnParameterChange ==
    [][(data_loaded /\ results.computed /\ ParameterChange /\ NoIoFailure') =>
          /\ results' = compute_welch_psd(Accelx, Accely, Accelz, fs', nperseg', noverlap')
          /\ results'.computed => Range(AnalysisOutput) \subseteq Range(shown')]_vars

\* C10: for a non-empty numeric input of length N and slider settings with
\* nperseg > N, compute_welch_psd returns a result, also when N <= noverlap.
C10_ShortInputDegrades ==
    (/\ EstimatorRan
     /\ Accelx.dtype = "float64" /\ Accely.dtype = "float64" /\ Accelz.dtype = "float64"
     /\ Len(Accelx.data) >= 1
     /\ nperseg > Len(Accelx.data)) => results.computed

====
